---- MODULE Spec2Model ----
(***************************************************************************)
(* Model of app.py (Chatterbox Turbo TTS web application): the voice       *)
(* catalog built by scan_voice_folder, the lookup resolve_voice_path, the  *)
(* lazily loaded model, the seeding of the random generators, the two     *)
(* request handlers generate_tts (POST /api/tts) and generate_tts_upload   *)
(* (POST /api/tts/upload), the listing get_voices (GET /api/voices) and    *)
(* the post-processing process_audio.                                      *)
(*                                                                         *)
(* Strings are sequences of tokens: a token is a letter ("a", "A", ...)    *)
(* or a whole extension (".wav", ".WAV", ...), so that str.lower(),        *)
(* Path.suffix, Path.stem and f"{name}.wav" are computed, not assumed.     *)
(* Optional values are sequences of length at most one: None is <<>>.      *)
(***************************************************************************)
EXTENDS Integers, Sequences, FiniteSets, TLC

VARIABLES
    phase,             \* "boot" before the module-level scan, then "serving"
    voiceDirExists,    \* VOICE_FOLDER.exists()
    voiceDir,          \* names of the entries directly inside VOICE_FOLDER
    scanned,           \* the regular files the scan saw (history)
    AVAILABLE_VOICES,  \* the dict alias -> path, in insertion order
    MODEL_CACHE,       \* the set of keys of the dict MODEL_CACHE
    rng,               \* global RNG state, see FreshRng
    tmpFiles,          \* temporary files that exist on disk
    task,              \* upload requests suspended at "await audio_file.read()"
    last,              \* the request that produced the latest response
    loads,             \* calls of from_pretrained that returned (history)
    listing,           \* the voice files in the order iterdir() yields them
    scans,             \* the mapping each scan_voice_folder() call built (history)
    wav0,              \* the waveform handed to process_audio (history)
    wav,               \* the waveform process_audio returned last
    passes             \* process_audio calls made on the waveform

vars == <<phase, voiceDirExists, voiceDir, scanned, AVAILABLE_VOICES,
          MODEL_CACHE, rng, tmpFiles, task, last, loads, listing, scans,
          wav0, wav, passes>>

\* what the request handlers leave alone
scan_vars == <<listing, scans>>
audio_vars == <<wav0, wav, passes>>

-----------------------------------------------------------------------------
(* Bounds *)

MaxFiles == 3      \* entries in the voice directory
MaxTmp == 1        \* temporary files that can exist at once
MaxDraws == 1      \* generate calls counted after a reseed
NumTasks == 1      \* upload requests that can be suspended at once
MaxScans == 2      \* scan_voice_folder() calls on one directory
MaxDims == 3       \* dimensions of a waveform
MaxAxis == 3       \* entries along one axis of a waveform
MaxPasses == 2     \* process_audio calls on one waveform

-----------------------------------------------------------------------------
(* Optional values and strings *)

None == <<>>
Some(x) == <<x>>

EmptyStr == <<>>

\* str.lower(), token by token
lower_tok(t) ==
    CASE t = "A" -> "a"
      [] t = "B" -> "b"
      [] t = ".WAV" -> ".wav"
      [] t = ".MP3" -> ".mp3"
      [] OTHER -> t

lower(s) == [i \in 1..Len(s) |-> lower_tok(s[i])]

\* the tokens that begin with a dot
DotTokens == {".wav", ".WAV", ".mp3", ".MP3", ".txt"}

\* pathlib: Path(name).suffix, "" when there is no dot after the first
\* character of the name
suffix(name) ==
    IF Len(name) >= 2 /\ name[Len(name)] \in DotTokens
    THEN <<name[Len(name)]>>
    ELSE EmptyStr

\* pathlib: Path(name).stem
stem(name) ==
    IF suffix(name) # EmptyStr THEN SubSeq(name, 1, Len(name) - 1) ELSE name

\* f"{name}.wav"
with_wav(name) == name \o <<".wav">>

\* Python truthiness of an Optional[str]
truthy(s) == s # None /\ s[1] # EmptyStr

-----------------------------------------------------------------------------
(* File system *)

\* entries of the voice directory that are directories, not regular files
SubDirs == { <<"d", ".wav">> }

is_file(name) == name \notin SubDirs

\* str(file_path.resolve()) of an entry of VOICE_FOLDER
VoicePath(name) == <<"/srv/voice/">> \o name

\* files outside the voice directory and the temp directory
ExistingFile == <<"/data/", "ref", ".wav">>
MissingFile == <<"/data/", "gone", ".wav">>

\* name of the n-th temporary file, with the suffix asked for
TmpNames == <<"tmp1", "tmp2", "tmp3", "tmp4">>
TmpPath(n, sfx) == <<"/tmp/", TmpNames[n]>> \o sfx

\* os.path.exists(path)
path_exists(path) ==
    \/ path = ExistingFile
    \/ path \in tmpFiles
    \/ /\ voiceDirExists
       /\ \E name \in voiceDir : path = VoicePath(name)

-----------------------------------------------------------------------------
(* The dict AVAILABLE_VOICES: a sequence of items in insertion order *)

dict_has(d, k) == \E i \in DOMAIN d : d[i].key = k

dict_get(d, k) == d[CHOOSE i \in DOMAIN d : d[i].key = k].path

\* d[k] = v: an existing key keeps its position
dict_set(d, k, v) ==
    IF dict_has(d, k)
    THEN [i \in DOMAIN d |-> IF d[i].key = k THEN [key |-> k, path |-> v] ELSE d[i]]
    ELSE Append(d, [key |-> k, path |-> v])

dict_keys(d) == { d[i].key : i \in DOMAIN d }

dict_values(d) == { d[i].path : i \in DOMAIN d }

-----------------------------------------------------------------------------
(* scan_voice_folder *)

audio_extensions == { <<".wav">>, <<".mp3">>, <<".flac">>, <<".ogg">>, <<".m4a">> }

\* the filter of the scan loop
is_voice_file(name) == is_file(name) /\ lower(suffix(name)) \in audio_extensions

register_voice_no_stem(d, name) == dict_set(d, name, VoicePath(name))

\* body of the scan loop for one matching file
register_voice(d, name) ==
    LET name_with_ext == name
        name_without_ext == stem(name)
        full_path == VoicePath(name)
    IN  dict_set(dict_set(d, name_with_ext, full_path), name_without_ext, full_path)

RECURSIVE scan_loop(_, _)
\* the loop over VOICE_FOLDER.iterdir(), in the order the OS yields
scan_loop(order, d) ==
    IF order = <<>> THEN d
    ELSE LET file_path == Head(order)
         IN  scan_loop(Tail(order),
                       IF is_voice_file(file_path) THEN register_voice(d, file_path) ELSE d)

\* the orders in which iterdir() can yield the entries
IterOrders(S) ==
    { o \in [1..Cardinality(S) -> S] : \A i, j \in 1..Cardinality(S) : o[i] = o[j] => i = j }

-----------------------------------------------------------------------------
(* resolve_voice_path *)

RECURSIVE first_ci_match(_, _, _)
\* the case-insensitive loop over AVAILABLE_VOICES.items(), from item i on
first_ci_match(d, voice_name_lower, i) ==
    IF i > Len(d) THEN None
    ELSE IF \/ lower(d[i].key) = voice_name_lower
            \/ lower(d[i].key) = with_wav(voice_name_lower)
         THEN Some(d[i].path)
         ELSE first_ci_match(d, voice_name_lower, i + 1)

lookup_voice_wav_first(d, voice_name) ==
    IF dict_has(d, with_wav(voice_name)) THEN Some(dict_get(d, with_wav(voice_name)))
    ELSE IF dict_has(d, voice_name) THEN Some(dict_get(d, voice_name))
    ELSE first_ci_match(d, lower(voice_name), 1)

\* the three lookups tried for a non-empty voice_name
lookup_voice(d, voice_name) ==
    IF dict_has(d, voice_name) THEN Some(dict_get(d, voice_name))
    ELSE IF dict_has(d, with_wav(voice_name)) THEN Some(dict_get(d, with_wav(voice_name)))
    ELSE first_ci_match(d, lower(voice_name), 1)

resolve_voice_path_name_first(voice_name, audio_prompt_path) ==
    LET found == IF truthy(voice_name) THEN lookup_voice(AVAILABLE_VOICES, voice_name[1]) ELSE None
    IN  IF found # None THEN found
        ELSE IF truthy(audio_prompt_path) THEN audio_prompt_path
        ELSE None

resolve_voice_path(voice_name, audio_prompt_path) ==
    IF truthy(audio_prompt_path) /\ path_exists(audio_prompt_path[1])
    THEN audio_prompt_path
    ELSE LET found == IF truthy(voice_name)
                      THEN lookup_voice(AVAILABLE_VOICES, voice_name[1])
                      ELSE None
         IN  IF found # None THEN found
             ELSE IF truthy(audio_prompt_path) THEN audio_prompt_path
             ELSE None

-----------------------------------------------------------------------------
(* Waveforms: numpy arrays *)

\* an array is its shape, its dtype and its samples by index; a sample is a
\* number in hundredths, or NaN; float32 holds the even numbers, float64
\* the odd ones as well
NaN == 0 - 9999

RECURSIVE Indices(_)
\* the indices of an array of the given shape
Indices(shape) ==
    IF shape = <<>> THEN { <<>> }
    ELSE { <<i>> \o rest : i \in 1..Head(shape), rest \in Indices(Tail(shape)) }

array(shape, dtype, data) == [shape |-> shape, dtype |-> dtype, data |-> data]

\* no waveform: an empty 1-D array
NoWave == array(<<0>>, "float32", <<>>)

\* wav.ndim
ndim(a) == Len(a.shape)

Reverse(s) == [i \in 1..Len(s) |-> s[Len(s) + 1 - i]]

\* wav.T: the axes in reverse order
transpose(a) ==
    array(Reverse(a.shape), a.dtype,
          [idx \in Indices(Reverse(a.shape)) |-> a.data[Reverse(idx)]])

\* wav.squeeze(axis) of an axis of length 1, axis counted from 1
squeeze(a, axis) ==
    LET shape == SubSeq(a.shape, 1, axis - 1) \o SubSeq(a.shape, axis + 1, Len(a.shape))
    IN  array(shape, a.dtype,
              [idx \in Indices(shape) |->
                  a.data[SubSeq(idx, 1, axis - 1) \o <<1>> \o SubSeq(idx, axis, Len(idx))]])

needs_transpose_le(a) == a.shape[1] <= a.shape[2]

\* "if wav.shape[0] < wav.shape[1]"
needs_transpose(a) == a.shape[1] < a.shape[2]

ensure_shape_keep_column(a) ==
    IF ndim(a) > 1
    THEN LET b == IF needs_transpose(a) THEN transpose(a) ELSE a
         IN  IF b.shape[1] = 1 THEN squeeze(b, 1) ELSE b
    ELSE a

\* "Ensure correct shape"
ensure_shape(a) ==
    IF ndim(a) > 1
    THEN LET b == IF needs_transpose(a) THEN transpose(a) ELSE a
         IN  IF b.shape[1] = 1 THEN squeeze(b, 1)
             ELSE IF ndim(b) = 2 /\ b.shape[2] = 1 THEN squeeze(b, 2)
             ELSE b
    ELSE a

\* the float32 nearest to a sample
to_float32(x) == IF x = NaN THEN NaN ELSE 2 * ((x + 1) \div 2)

\* wav.astype('float32') unless the dtype is float32 already
ensure_float32(a) ==
    IF a.dtype # "float32"
    THEN array(a.shape, "float32", [idx \in DOMAIN a.data |-> to_float32(a.data[idx])])
    ELSE a

clip_sample_upper_only(x, lo, hi) == IF x = NaN THEN NaN ELSE IF x > hi THEN hi ELSE x

\* np.clip of one sample: NaN stays NaN
clip_sample(x, lo, hi) ==
    IF x = NaN THEN NaN ELSE IF x < lo THEN lo ELSE IF x > hi THEN hi ELSE x

\* np.clip(wav, lo, hi)
clip(a, lo, hi) ==
    array(a.shape, a.dtype, [idx \in DOMAIN a.data |-> clip_sample(a.data[idx], lo, hi)])

process_audio(w) == clip(ensure_float32(ensure_shape(w)), 0 - 100, 100)

-----------------------------------------------------------------------------
(* Requests *)

\* TTSRequest: the Field(ge=..., le=...) constraints, floats in hundredths
TTSRequest_valid(p) ==
    /\ p.temperature >= 5 /\ p.temperature <= 200
    /\ p.top_p >= 0 /\ p.top_p <= 100
    /\ p.top_k >= 0 /\ p.top_k <= 1000
    /\ p.repetition_penalty >= 100 /\ p.repetition_penalty <= 200
    /\ p.min_p >= 0 /\ p.min_p <= 100

DefaultParams ==
    [temperature |-> 80, top_p |-> 95, top_k |-> 1000, repetition_penalty |-> 120, min_p |-> 0]

\* sampling parameters a client sends: the defaults, and a temperature
\* outside its range
ParamChoices == { DefaultParams, [DefaultParams EXCEPT !.temperature = 500] }

\* voice_name values a client sends
VoiceChoices == { None, Some(<<"a">>), Some(<<"z">>) }

\* audio_prompt_path values a client sends in the JSON body
PathChoices == { None, Some(EmptyStr), Some(ExistingFile), Some(MissingFile) }

\* seed values of the JSON body (Optional[int])
SeedChoices == { None, Some(0), Some(42), Some(0 - 5) }

\* seed values of the form (Optional[str])
SeedStrChoices == { None, Some(<<"0">>), Some(<<"42">>), Some(<<"-5">>), Some(<<"abc">>) }

\* audio_file values of the form: absent, or an attachment with a filename
FileChoices == { None, Some(<<"u", ".wav">>) }

\* int(seed): None stands for ValueError
int_of(s) ==
    CASE s = <<"0">> -> Some(0)
      [] s = <<"42">> -> Some(42)
      [] s = <<"-5">> -> Some(0 - 5)
      [] OTHER -> None

\* str(n) for the status codes
str_of(n) == CASE n = 404 -> "404" [] n = 500 -> "500" [] OTHER -> "?"

-----------------------------------------------------------------------------
(* Model handle and RNG *)

\* GET /api/health
model_loaded == "model" \in MODEL_CACHE

health_check == [status |-> "healthy", model_loaded |-> model_loaded]

must_load_always == TRUE

\* get_model: if "model" not in MODEL_CACHE
must_load == "model" \notin MODEL_CACHE

\* get_model when from_pretrained returns: the cache afterwards
get_model == MODEL_CACHE \cup {"model"}

\* get_model when from_pretrained returns: the calls of from_pretrained that
\* have returned a model
get_model_loads == IF must_load THEN loads + 1 ELSE loads

\* the seed of a process that was never seeded
Entropy == 0 - 1

\* the generators as the process starts: torch is the torch (CPU and CUDA)
\* and random generators, numpy the numpy generator; each is the seed it was
\* last given and the generate calls since
FreshRng == [torch |-> <<Entropy, 0>>, numpy |-> <<Entropy, 0>>]

\* np.random.seed(seed) raises ValueError unless 0 <= seed <= 2**32 - 1,
\* written as seed < 65536 * 65536
np_seed_ok(seed) == seed >= 0 /\ seed \div 65536 < 65536

\* set_seed(seed) raises: torch.manual_seed and random.seed take the seed,
\* np.random.seed, called last, refuses it
set_seed_raises(seed) == ~np_seed_ok(seed)

set_seed_noop(seed) == rng

\* set_seed(seed): the generators restart from seed, in the order torch,
\* random, numpy; the numpy generator is left alone when its call raises
set_seed(seed) ==
    [torch |-> <<seed, 0>>, numpy |-> IF np_seed_ok(seed) THEN <<seed, 0>> ELSE rng.numpy]

\* one more generate call since the last reseed, counted up to MaxDraws
bump(g) == <<g[1], IF g[2] < MaxDraws THEN g[2] + 1 ELSE g[2]>>

\* what a generate call does to the generators
draw(r) == [torch |-> bump(r.torch), numpy |-> bump(r.numpy)]

-----------------------------------------------------------------------------
(* Exceptions and responses *)

Exception(msg) == [cls |-> "Exception", status_code |-> 0, detail |-> <<msg>>]

HTTPException(code, detail) == [cls |-> "HTTPException", status_code |-> code, detail |-> detail]

\* the ValueError of np.random.seed
set_seed_failed == Exception("Seed must be between 0 and 2**32 - 1")

\* the detail of the 404 raised by the upload handler
voice_not_found(voice_name) ==
    <<"Voice '">> \o voice_name \o <<"' not found. Use /api/voices to list available voices.">>

\* str(e): starlette's HTTPException prints "<status_code>: <detail>"
str_exc(e) ==
    IF e.cls = "HTTPException" THEN <<str_of(e.status_code), ": ">> \o e.detail ELSE e.detail

\* except Exception as e: raise HTTPException(status_code=500, detail=str(e))
handler_except(e) == HTTPException(500, str_exc(e))

NoRequest ==
    [kind |-> "none", voice_name |-> None, audio_prompt_path |-> None, attachment |-> FALSE,
     params |-> DefaultParams, status |-> 0, detail |-> <<>>, triggered_load |-> FALSE,
     resolved |-> None, generate_called |-> FALSE, generate_ref |-> None,
     tmp |-> None, tmp_on_disk |-> FALSE, seed |-> None, rng_in |-> None, raised |-> {}]

-----------------------------------------------------------------------------
(* Initial states *)

\* directory contents the server is started on
ServeDirs == { {}, { <<"a", ".wav">> } }

BootServer(dirs) ==
    /\ phase = "boot"
    /\ voiceDirExists \in BOOLEAN
    /\ voiceDir \in dirs
    /\ ~voiceDirExists => voiceDir = {}
    /\ scanned = {}
    /\ AVAILABLE_VOICES = <<>>
    /\ MODEL_CACHE = {}
    /\ rng = FreshRng
    /\ tmpFiles = {}
    /\ task = {}
    /\ last = NoRequest
    /\ loads = 0
    /\ listing = <<>>
    /\ scans = <<>>

Boot(dirs) ==
    /\ BootServer(dirs)
    /\ wav0 = NoWave
    /\ wav = NoWave
    /\ passes = 0

Init == Boot(ServeDirs)

-----------------------------------------------------------------------------
(* scan_voice_folder() *)

\* the entry is in the voice directory
present(name) == name \in voiceDir

\* an unchanged directory is listed in the order it was listed in before
same_listing(order) ==
    scans = <<>> \/ SelectSeq(order, is_voice_file) = SelectSeq(listing, present)

scan_voice_folder_no_mkdir ==
    /\ IF ~voiceDirExists
       THEN /\ UNCHANGED voiceDirExists
            /\ AVAILABLE_VOICES' = <<>>
            /\ scanned' = {}
            /\ listing' = <<>>
       ELSE /\ \E order \in IterOrders(voiceDir) :
                   /\ same_listing(order)
                   /\ AVAILABLE_VOICES' = scan_loop(order, <<>>)
                   /\ listing' = SelectSeq(order, is_voice_file)
            /\ scanned' = { name \in voiceDir : is_file(name) }
            /\ UNCHANGED voiceDirExists
    /\ scans' = Append(scans, AVAILABLE_VOICES')
    /\ UNCHANGED <<voiceDir, MODEL_CACHE, rng, tmpFiles, task, last, loads, audio_vars>>

\* the body of scan_voice_folder()
scan_voice_folder_call ==
    /\ IF ~voiceDirExists
       THEN /\ voiceDirExists' = TRUE
            /\ AVAILABLE_VOICES' = <<>>
            /\ scanned' = {}
            /\ listing' = <<>>
       ELSE /\ \E order \in IterOrders(voiceDir) :
                   /\ same_listing(order)
                   /\ AVAILABLE_VOICES' = scan_loop(order, <<>>)
                   /\ listing' = SelectSeq(order, is_voice_file)
            /\ scanned' = { name \in voiceDir : is_file(name) }
            /\ UNCHANGED voiceDirExists
    /\ scans' = Append(scans, AVAILABLE_VOICES')
    /\ UNCHANGED <<voiceDir, MODEL_CACHE, rng, tmpFiles, task, last, loads, audio_vars>>

\* the call made once when the module is imported
scan_voice_folder ==
    /\ phase = "boot"
    /\ phase' = "serving"
    /\ scan_voice_folder_call

\* one more call on the directory, as a caller of the function can make
scan_voice_folder_again ==
    /\ phase = "serving"
    /\ Len(scans) < MaxScans
    /\ UNCHANGED phase
    /\ scan_voice_folder_call

-----------------------------------------------------------------------------
(* POST /api/tts *)

\* a response, as the client and the properties below see it; resolved is
\* None when resolve_voice_path was not called and Some(result) when it was;
\* seed is the non-zero integer the request had set_seed called with, rng_in
\* the RNG state such a request entered model.generate with, raised the
\* exceptions raised inside the handler
Response(kind, voice_name, audio_prompt_path, attachment, params, loaded, exc, resolved, called, ref, tmp, seed, rng_in, raised) ==
    [kind |-> kind, voice_name |-> voice_name, audio_prompt_path |-> audio_prompt_path,
     attachment |-> attachment, params |-> params,
     status |-> IF exc = None THEN 200 ELSE exc[1].status_code,
     detail |-> IF exc = None THEN <<>> ELSE exc[1].detail,
     triggered_load |-> loaded,
     resolved |-> resolved,
     generate_called |-> called, generate_ref |-> ref,
     tmp |-> tmp, tmp_on_disk |-> tmp # None /\ tmp[1] \in tmpFiles',
     seed |-> seed, rng_in |-> rng_in, raised |-> raised]

load_failed == Exception("load failed")

\* what a fault makes model.generate or sf.write raise
fault_raised(fault) ==
    CASE fault = "generate" -> { Exception("generate failed") }
      [] fault = "encode" -> { Exception("encode failed") }
      [] OTHER -> {}

\* the exception a fault raises after the model was obtained
fault_exc(fault) ==
    CASE fault = "generate" -> Some(handler_except(Exception("generate failed")))
      [] fault = "encode" -> Some(handler_except(Exception("encode failed")))
      [] OTHER -> None

\* the request body fails TTSRequest validation: FastAPI answers 422 and the
\* handler does not run
generate_tts_invalid(voice_name, audio_prompt_path, params) ==
    /\ phase = "serving"
    /\ ~TTSRequest_valid(params)
    /\ UNCHANGED <<phase, voiceDirExists, voiceDir, scanned, AVAILABLE_VOICES,
                   MODEL_CACHE, rng, tmpFiles, task, loads, scan_vars, audio_vars>>
    /\ last' = Response("json", voice_name, audio_prompt_path, FALSE, params, FALSE,
                        Some(HTTPException(422, <<"validation error">>)),
                        None, FALSE, None, None, None, None, {})

\* "if request.seed is not None and request.seed != 0"
json_seed(seed) == IF seed # None /\ seed[1] # 0 THEN seed ELSE None

generate_tts(voice_name, audio_prompt_path, params, seed, fault) ==
    /\ phase = "serving"
    /\ fault = "load" => must_load    \* from_pretrained raises only when called
    /\ TTSRequest_valid(params)
    /\ UNCHANGED <<phase, voiceDirExists, voiceDir, scanned, AVAILABLE_VOICES,
                   tmpFiles, task, scan_vars, audio_vars>>
    /\ LET before == health_check.model_loaded
           load_fails == ~before /\ fault = "load"
           seeded == json_seed(seed)
           rng1 == IF seeded # None THEN set_seed(seeded[1]) ELSE rng
           ref == resolve_voice_path(voice_name, audio_prompt_path)
       IN  IF load_fails
           THEN /\ UNCHANGED <<MODEL_CACHE, loads, rng>>
                /\ last' = Response("json", voice_name, audio_prompt_path, FALSE, params,
                                    FALSE, Some(handler_except(load_failed)),
                                    None, FALSE, None, None, seeded, None, {load_failed})
           ELSE /\ MODEL_CACHE' = get_model
                /\ loads' = get_model_loads
                /\ IF seeded # None /\ set_seed_raises(seeded[1])
                   THEN /\ rng' = rng1
                        /\ last' = Response("json", voice_name, audio_prompt_path, FALSE,
                                            params, ~before,
                                            Some(handler_except(set_seed_failed)),
                                            None, FALSE, None, None, seeded, None,
                                            {set_seed_failed})
                   ELSE /\ rng' = draw(rng1)
                        /\ last' = Response("json", voice_name, audio_prompt_path, FALSE,
                                            params, ~before, fault_exc(fault), Some(ref),
                                            TRUE, ref, None, seeded,
                                            IF seeded # None THEN Some(rng1) ELSE None,
                                            fault_raised(fault))

-----------------------------------------------------------------------------
(* POST /api/tts/upload *)

\* int(seed) of the form field, None when it is empty or no integer
seed_int_of(seed) == IF truthy(seed) THEN int_of(seed[1]) ELSE None

\* "if seed_int != 0" after int(seed) returned
upload_seed(seed) ==
    LET seed_int == seed_int_of(seed)
    IN  IF seed_int # None /\ seed_int[1] # 0 THEN seed_int ELSE None

\* "except (ValueError, TypeError): pass" around int(seed) and set_seed: the
\* ValueError of set_seed that it swallows
upload_seed_raised(seeded) ==
    IF seeded # None /\ set_seed_raises(seeded[1]) THEN { set_seed_failed } ELSE {}

\* the try/finally around model.generate: generation, encoding, then the
\* clean-up of audio_prompt_path
upload_generate(voice_name, attachment, params, triggered_load, resolved, ref, tmp, rng_in, fault, seeded, raised) ==
    LET cleanup == truthy(ref) /\ path_exists(ref[1])
    IN  /\ rng' = draw(rng_in)
        /\ tmpFiles' = IF cleanup THEN tmpFiles \ {ref[1]} ELSE tmpFiles
        /\ voiceDir' = IF cleanup
                       THEN { name \in voiceDir : VoicePath(name) # ref[1] }
                       ELSE voiceDir
        /\ last' = Response("upload", voice_name, None, attachment, params, triggered_load,
                            fault_exc(fault), resolved, TRUE, ref, tmp, seeded,
                            IF seeded # None THEN Some(rng_in) ELSE None,
                            raised \cup fault_raised(fault))

upload_not_found_never(voice_name, audio_prompt_path) == FALSE

\* "if not audio_prompt_path" after the lookup of a given voice_name
upload_not_found(voice_name, audio_prompt_path) ==
    truthy(voice_name) /\ ~truthy(audio_prompt_path)

\* the handler for a form without attachment: it never suspends
generate_tts_upload(voice_name, params, seed, fault) ==
    /\ phase = "serving"
    /\ fault = "load" => must_load    \* from_pretrained raises only when called
    /\ UNCHANGED <<phase, voiceDirExists, scanned, AVAILABLE_VOICES, task,
                   scan_vars, audio_vars>>
    /\ LET before == health_check.model_loaded
           load_fails == ~before /\ fault = "load"
           seeded == upload_seed(seed)
           rng1 == IF seeded # None THEN set_seed(seeded[1]) ELSE rng
           ref == IF truthy(voice_name) THEN resolve_voice_path(voice_name, None) ELSE None
           resolved == IF truthy(voice_name) THEN Some(ref) ELSE None
           not_found == upload_not_found(voice_name, ref)
           e404 == HTTPException(404, voice_not_found(voice_name[1]))
       IN  IF load_fails
           THEN /\ UNCHANGED <<MODEL_CACHE, loads, rng, tmpFiles, voiceDir>>
                /\ last' = Response("upload", voice_name, None, FALSE, params, FALSE,
                                    Some(handler_except(load_failed)),
                                    None, FALSE, None, None, seeded, None, {load_failed})
           ELSE /\ MODEL_CACHE' = get_model
                /\ loads' = get_model_loads
                /\ IF not_found
                   THEN /\ rng' = rng1
                        /\ UNCHANGED <<tmpFiles, voiceDir>>
                        /\ last' = Response("upload", voice_name, None, FALSE, params, ~before,
                                            Some(handler_except(e404)),
                                            resolved, FALSE, None, None, seeded, None,
                                            upload_seed_raised(seeded) \cup {e404})
                   ELSE upload_generate(voice_name, FALSE, params, ~before, resolved, ref,
                                        None, rng1, fault, seeded, upload_seed_raised(seeded))

\* the n-th temporary name is not taken by a file on disk
tmp_free(n) == \A f \in tmpFiles : f[2] # TmpNames[n]

\* tempfile.NamedTemporaryFile(delete=False, suffix=...): a name no file has
new_tmp(sfx) ==
    TmpPath(CHOOSE n \in 1..MaxTmp : tmp_free(n) /\ \A m \in 1..(n - 1) : ~tmp_free(m), sfx)

\* the handler for a form with an attachment, up to "await audio_file.read()"
generate_tts_upload_begin(voice_name, audio_file, params, seed, fault) ==
    /\ phase = "serving"
    /\ fault = "load" => must_load    \* from_pretrained raises only when called
    /\ audio_file # None
    /\ Cardinality(task) < NumTasks
    /\ \E n \in 1..MaxTmp : tmp_free(n)
    /\ UNCHANGED <<phase, voiceDirExists, voiceDir, scanned, AVAILABLE_VOICES,
                   scan_vars, audio_vars>>
    /\ LET before == health_check.model_loaded
           load_fails == ~before /\ fault = "load"
           seeded == upload_seed(seed)
           tmp == new_tmp(suffix(audio_file[1]))
       IN  IF load_fails
           THEN /\ UNCHANGED <<MODEL_CACHE, loads, rng, tmpFiles, task>>
                /\ last' = Response("upload", voice_name, None, TRUE, params, FALSE,
                                    Some(handler_except(load_failed)),
                                    None, FALSE, None, None, seeded, None, {load_failed})
           ELSE /\ MODEL_CACHE' = get_model
                /\ loads' = get_model_loads
                /\ rng' = IF seeded # None THEN set_seed(seeded[1]) ELSE rng
                /\ tmpFiles' = tmpFiles \cup {tmp}
                /\ task' = task \cup { [voice_name |-> voice_name, params |-> params,
                                        triggered_load |-> ~before, tmp |-> tmp,
                                        seed |-> seeded,
                                        raised |-> upload_seed_raised(seeded)] }
                /\ UNCHANGED last

\* what a fault makes audio_file.read() or tmp_file.write() raise
read_raised(fault) ==
    Exception(IF fault = "read" THEN "read failed" ELSE "write failed")

\* the same handler from the point where audio_file.read() returns or raises
generate_tts_upload_resume(t, fault) ==
    /\ t \in task
    /\ task' = task \ {t}
    /\ UNCHANGED <<phase, voiceDirExists, scanned, AVAILABLE_VOICES, MODEL_CACHE, loads,
                   scan_vars, audio_vars>>
    /\ IF fault \in {"read", "write"}
       THEN /\ UNCHANGED <<rng, tmpFiles, voiceDir>>
            /\ last' = Response("upload", t.voice_name, None, TRUE, t.params, t.triggered_load,
                                Some(handler_except(read_raised(fault))),
                                None, FALSE, None, Some(t.tmp), t.seed, None,
                                t.raised \cup { read_raised(fault) })
       ELSE upload_generate(t.voice_name, TRUE, t.params, t.triggered_load, None,
                            Some(t.tmp), Some(t.tmp), rng, fault, t.seed, t.raised)

-----------------------------------------------------------------------------
(* GET /api/voices *)

\* str.endswith('.wav')
ends_with_wav(key) == Len(key) >= 1 /\ key[Len(key)] = ".wav"

\* the order of the tokens as strings: by code point, "." before the
\* upper-case letters before the lower-case letters
tok_rank(t) ==
    CASE t = ".MP3" -> 1 [] t = ".WAV" -> 2 [] t = ".mp3" -> 3 [] t = ".txt" -> 4
      [] t = ".wav" -> 5 [] t = "A" -> 6 [] t = "B" -> 7 [] t = "a" -> 8
      [] t = "b" -> 9 [] t = "d" -> 10 [] OTHER -> 11

RECURSIVE str_less(_, _)
\* x < y for two strings
str_less(x, y) ==
    IF y = <<>> THEN FALSE
    ELSE IF x = <<>> THEN TRUE
    ELSE IF Head(x) = Head(y) THEN str_less(Tail(x), Tail(y))
    ELSE tok_rank(Head(x)) < tok_rank(Head(y))

RECURSIVE sorted(_)
\* sorted(keys): the list in ascending order
sorted(S) ==
    IF S = {} THEN <<>>
    ELSE LET least == CHOOSE x \in S : \A y \in S \ {x} : str_less(x, y)
         IN  <<least>> \o sorted(S \ {least})

\* the keys of unique_voices after the loop over AVAILABLE_VOICES.items()
unique_voices ==
    { key \in dict_keys(AVAILABLE_VOICES) :
        \/ ends_with_wav(key)
        \/ ~dict_has(AVAILABLE_VOICES, with_wav(key)) }

get_voices ==
    [voices |-> sorted(unique_voices),
     count |-> Cardinality(dict_values(AVAILABLE_VOICES))]

-----------------------------------------------------------------------------
(* Specification of the server *)

\* a request with the seed left out
NoSeed == { None }

Next ==
    \/ scan_voice_folder
    \/ \E v \in VoiceChoices, p \in PathChoices, q \in ParamChoices :
           generate_tts_invalid(v, p, q)
    \/ \E v \in VoiceChoices, p \in PathChoices, q \in ParamChoices, s \in NoSeed,
          f \in {"none", "load", "generate", "encode"} :
           generate_tts(v, p, q, s, f)
    \/ \E v \in VoiceChoices, q \in ParamChoices, s \in NoSeed,
          f \in {"none", "load", "generate", "encode"} :
           generate_tts_upload(v, q, s, f)
    \/ \E v \in VoiceChoices, a \in FileChoices, q \in ParamChoices, s \in NoSeed,
          f \in {"none", "load"} :
           generate_tts_upload_begin(v, a, q, s, f)
    \/ \E t \in task, f \in {"none", "read", "write", "generate", "encode"} :
           generate_tts_upload_resume(t, f)

Spec == Init /\ [][Next]_vars

-----------------------------------------------------------------------------
(* Specification of the catalog: scans of richer directories, and lookups *)
(* through the JSON handler                                               *)

\* entries a voice directory can hold: names that differ by case, that share
\* a stem, a stem that is another file's full name, an upper-case and a
\* foreign extension, a name without extension, and a sub-directory
CatalogFiles ==
    { <<"a", ".wav">>, <<"A", ".wav">>, <<"a", ".mp3">>, <<"a", ".wav", ".mp3">>,
      <<"b", ".WAV">>, <<"b", ".txt">>, <<"a">>, <<"d", ".wav">> }

CatalogDirs == { S \in SUBSET CatalogFiles : Cardinality(S) <= MaxFiles }

\* voice_name values looked up
CatalogVoices ==
    { None, Some(EmptyStr), Some(<<"a">>), Some(<<"A">>), Some(<<"a", ".wav">>),
      Some(<<"A", ".WAV">>), Some(<<"a", ".mp3">>), Some(<<"b">>), Some(<<"B">>),
      Some(<<"d">>), Some(<<"z">>) }

InitCatalog == Boot(CatalogDirs)

NextCatalog ==
    \/ scan_voice_folder
    \/ \E v \in CatalogVoices, p \in PathChoices :
           generate_tts(v, p, DefaultParams, None, "none")

SpecCatalog == InitCatalog /\ [][NextCatalog]_vars

-----------------------------------------------------------------------------
(* Specifications of seeded requests: SpecSeed lets requests interleave at *)
(* the await of the upload handler, SpecSeq runs them one after the other  *)

SeedFaults == { "none", "generate" }

InitSeed == Boot(ServeDirs)

seeded_json ==
    \E s \in SeedChoices, f \in SeedFaults : generate_tts(None, None, DefaultParams, s, f)

seeded_upload ==
    \E s \in SeedStrChoices, f \in SeedFaults : generate_tts_upload(None, DefaultParams, s, f)

seeded_upload_begin ==
    \E a \in FileChoices, s \in SeedStrChoices :
        generate_tts_upload_begin(None, a, DefaultParams, s, "none")

seeded_upload_resume ==
    \E t \in task, f \in {"none", "read"} : generate_tts_upload_resume(t, f)

NextSeed ==
    \/ scan_voice_folder
    \/ seeded_json
    \/ seeded_upload
    \/ seeded_upload_begin
    \/ seeded_upload_resume

SpecSeed == InitSeed /\ [][NextSeed]_vars

\* no request is in flight
Idle == task = {}

NextSeq ==
    \/ scan_voice_folder
    \/ Idle /\ seeded_json
    \/ Idle /\ seeded_upload
    \/ Idle /\ seeded_upload_begin
    \/ seeded_upload_resume

SpecSeq == InitSeed /\ [][NextSeq]_vars

-----------------------------------------------------------------------------
(* Specification of repeated scans of one directory *)

InitScan == Boot(CatalogDirs)

NextScan ==
    \/ scan_voice_folder
    \/ scan_voice_folder_again

SpecScan == InitScan /\ [][NextScan]_vars

-----------------------------------------------------------------------------
(* Specification of process_audio: waveforms of every shape up to MaxDims *)
(* dimensions, processed up to MaxPasses times                            *)

\* shapes with 0 to MaxDims axes of 0 to MaxAxis entries
Shapes == UNION { [1..n -> 0..MaxAxis] : n \in 0..MaxDims }

Dtypes == { "float32", "float64" }

\* samples a waveform of each dtype is filled with: below, at and above
\* the ends of the range, inside it, and NaN
Palette ==
    [float32 |-> <<0 - 150, 0 - 100, 0, 50, 100, 150, NaN>>,
     float64 |-> <<0 - 151, 0 - 33, 0, 51, 100, 151, NaN>>]

RECURSIVE weigh(_)
\* a number that tells the indices of a waveform apart
weigh(idx) == IF idx = <<>> THEN 0 ELSE Head(idx) + 4 * weigh(Tail(idx))

\* the waveform of a shape and dtype filled from the palette, from off on
wave(shape, dtype, off) ==
    array(shape, dtype,
          [idx \in Indices(shape) |-> Palette[dtype][((weigh(idx) + off) % 7) + 1]])

Waves == { wave(shape, dtype, off) : shape \in Shapes, dtype \in Dtypes, off \in 0..6 }

InitAudio ==
    /\ BootServer({ {} })
    /\ wav0 \in Waves
    /\ wav = wav0
    /\ passes = 0

\* wav = process_audio(wav, sr)
process_audio_call ==
    /\ passes < MaxPasses
    /\ wav' = process_audio(wav)
    /\ passes' = passes + 1
    /\ UNCHANGED <<phase, voiceDirExists, voiceDir, scanned, AVAILABLE_VOICES,
                   MODEL_CACHE, rng, tmpFiles, task, last, loads, scan_vars, wav0>>

NextAudio == process_audio_call

SpecAudio == InitAudio /\ [][NextAudio]_vars

-----------------------------------------------------------------------------
(* Properties *)

\* the items of the catalog d that match the name v without regard to case,
\* as v or as v + ".wav"
CiMatches(d, v) ==
    { i \in DOMAIN d : lower(d[i].key) = lower(v) \/ lower(d[i].key) = lower(with_wav(v)) }

Resolvable(d, v) == CiMatches(d, v) # {}

Min(S) == CHOOSE i \in S : \A j \in S : i <= j

\* the lookup law: the alias v, else the alias v + ".wav", else the first
\* item in mapping order that matches without regard to case, else nothing
CatalogLaw(d, v) ==
    IF v \in dict_keys(d) THEN Some(dict_get(d, v))
    ELSE IF with_wav(v) \in dict_keys(d) THEN Some(dict_get(d, with_wav(v)))
    ELSE IF CiMatches(d, v) # {} THEN Some(d[Min(CiMatches(d, v))].path)
    ELSE None

\* an upload request without attachment that was turned down because the
\* lookup of its voice name found nothing
RejectedUnknownVoice ==
    /\ last.kind = "upload"
    /\ ~last.attachment
    /\ truthy(last.voice_name)
    /\ last.resolved = Some(None)

\* C1: every file that was in the voice directory at scan time still exists
\* after any sequence of requests.
C1_VoiceFolderReadOnly ==
    phase = "serving" => voiceDirExists /\ \A name \in scanned : name \in voiceDir

\* C2: when the response of an upload request with an attachment is produced,
\* the temporary file created for it is no longer on disk.
C2_TempFileRemoved ==
    (last.kind = "upload" /\ last.tmp # None) => ~last.tmp_on_disk

\* C3: a voice name the catalog cannot resolve ends an upload request without
\* attachment in an error response without a generate call; in the JSON
\* handler it causes no error, and generate is called with audio_prompt_path
\* when that is non-empty and with no reference otherwise.
C3_StrictVersusLenient ==
    /\ ( /\ last.kind = "upload"
         /\ ~last.attachment
         /\ truthy(last.voice_name)
         /\ ~Resolvable(AVAILABLE_VOICES, last.voice_name[1]) )
       => /\ last.status >= 400
          /\ ~last.generate_called
    /\ ( /\ last.kind = "json"
         /\ truthy(last.voice_name)
         /\ ~Resolvable(AVAILABLE_VOICES, last.voice_name[1])
         /\ last.status # 422
         /\ last.detail # <<"load failed">> )
       => /\ last.generate_called
          /\ last.generate_ref = IF truthy(last.audio_prompt_path)
                                 THEN last.audio_prompt_path ELSE None
          /\ \/ last.status = 200
             \/ last.detail \in { <<"generate failed">>, <<"encode failed">> }

C3_Witness ==
    /\ RejectedUnknownVoice
    /\ ~Resolvable(AVAILABLE_VOICES, last.voice_name[1])
    /\ AVAILABLE_VOICES # <<>>
    /\ last.status >= 400
    /\ model_loaded

\* C4: the response of the upload handler to an unresolvable voice name
\* without attachment has status 404 and the detail raised at the lookup.
C4_NotFoundIs404 ==
    RejectedUnknownVoice
    => /\ last.status = 404
       /\ last.detail = voice_not_found(last.voice_name[1])

\* C5: in the JSON handler a voice_name that resolves in the catalog makes
\* the catalog path the reference passed to generate, whatever
\* audio_prompt_path is.
C5_VoiceNameBeatsPath ==
    ( /\ last.kind = "json"
      /\ last.generate_called
      /\ truthy(last.voice_name)
      /\ Resolvable(AVAILABLE_VOICES, last.voice_name[1]) )
    => last.generate_ref = CatalogLaw(AVAILABLE_VOICES, last.voice_name[1])

\* C6: an upload request with an attachment passes its temporary file to
\* generate for every voice_name, and no voice_name makes it fail; and
\* resolve_voice_path returns a path argument that exists on disk unchanged,
\* for every voice_name.
C6_UploadedFileWins ==
    /\ (last.kind = "upload" /\ last.attachment)
       => /\ last.resolved = None
          /\ last.generate_called => (last.tmp # None /\ last.generate_ref = last.tmp)
          /\ last.status # 404
          /\ \/ last.status = 200
             \/ last.detail \in { <<"load failed">>, <<"read failed">>, <<"write failed">>,
                                  <<"generate failed">>, <<"encode failed">> }
    /\ ( /\ last.kind = "json"
         /\ last.resolved # None
         /\ truthy(last.audio_prompt_path)
         /\ path_exists(last.audio_prompt_path[1]) )
       => last.resolved = Some(last.audio_prompt_path)

C6_Witness ==
    /\ last.kind = "upload"
    /\ last.attachment
    /\ last.voice_name = Some(<<"z">>)
    /\ ~Resolvable(AVAILABLE_VOICES, <<"z">>)
    /\ last.generate_called
    /\ last.generate_ref = last.tmp
    /\ last.status = 200

\* C7: resolve_voice_path without path argument follows the lookup law for
\* every non-empty voice name and every catalog, and returns None exactly
\* when no alias equals the name or the name + ".wav" without regard to case.
C7_CatalogLookupLaw ==
    ( /\ last.kind = "json"
      /\ last.resolved # None
      /\ ~truthy(last.audio_prompt_path)
      /\ truthy(last.voice_name) )
    => /\ last.resolved[1] = CatalogLaw(AVAILABLE_VOICES, last.voice_name[1])
       /\ last.resolved[1] = None <=> ~Resolvable(AVAILABLE_VOICES, last.voice_name[1])

\* a lookup decided by the case-insensitive pass, with two candidate items
\* that lead to different files
C7_Witness ==
    /\ last.kind = "json"
    /\ last.resolved # None
    /\ ~truthy(last.audio_prompt_path)
    /\ truthy(last.voice_name)
    /\ last.voice_name[1] \notin dict_keys(AVAILABLE_VOICES)
    /\ with_wav(last.voice_name[1]) \notin dict_keys(AVAILABLE_VOICES)
    /\ \E i, j \in CiMatches(AVAILABLE_VOICES, last.voice_name[1]) :
           AVAILABLE_VOICES[i].path # AVAILABLE_VOICES[j].path
    /\ last.resolved[1] # None

\* the scanned files that pass the extension filter
VoiceFiles == { name \in scanned : is_voice_file(name) }

\* C8 as claimed: after the scan, the full filename and the stem of every
\* matching file are catalog keys that map to that file's own path.
C8_BothAliasesOwnPath ==
    phase = "serving"
    => \A name \in VoiceFiles :
           /\ dict_has(AVAILABLE_VOICES, name)
           /\ dict_get(AVAILABLE_VOICES, name) = VoicePath(name)
           /\ dict_has(AVAILABLE_VOICES, stem(name))
           /\ dict_get(AVAILABLE_VOICES, stem(name)) = VoicePath(name)

\* the matching files that register the key k, as filename or as stem
Claimants(k) == { name \in VoiceFiles : name = k \/ stem(name) = k }

\* C8 as amended: after the scan, the full filename and the stem of every
\* matching file are catalog keys; each key maps to the path of one of the
\* matching files that have it as filename or stem, hence to the file's own
\* path when no other matching file has it; and the catalog has no other keys.
C8_BothAliasesRegistered ==
    phase = "serving"
    => /\ \A name \in VoiceFiles :
              \A k \in {name, stem(name)} :
                  /\ dict_has(AVAILABLE_VOICES, k)
                  /\ \E other \in Claimants(k) :
                         dict_get(AVAILABLE_VOICES, k) = VoicePath(other)
       /\ \A k \in dict_keys(AVAILABLE_VOICES) : Claimants(k) # {}

\* a scan of two files that share a stem, and of a file whose stem is the
\* full name of another
C8_Witness ==
    /\ phase = "serving"
    /\ \E n1, n2 \in VoiceFiles : n1 # n2 /\ stem(n1) = stem(n2)
    /\ \E n1, n2 \in VoiceFiles : n1 # n2 /\ stem(n1) = n2
    /\ Len(AVAILABLE_VOICES) >= 4

\* C9: an upload request rejected because its voice name is not in the
\* catalog neither loads the model nor calls generate.
C9_RejectionLeavesModelAlone ==
    RejectedUnknownVoice => (~last.triggered_load /\ ~last.generate_called)

\* the GenerationRequest ranges, floats in hundredths
InRanges(p) ==
    /\ p.temperature \in 5..200
    /\ p.top_p \in 0..100
    /\ p.top_k \in 0..1000
    /\ p.repetition_penalty \in 100..200
    /\ p.min_p \in 0..100

\* C10: neither handler calls generate with a sampling parameter outside
\* the GenerationRequest ranges.
C10_GenerateParamsInRange ==
    last.generate_called => InRanges(last.params)

\* C11: whatever the interleaving of requests, from_pretrained returns a
\* model at most once in a process, and it has returned one exactly when
\* the cache holds the model: a get_model call that finds the model cached
\* does not load again.
C11_LoadedAtMostOnce ==
    /\ loads <= 1
    /\ model_loaded <=> loads = 1

\* a request that went through get_model while the upload request that
\* loaded the model is still suspended
C11_Witness ==
    /\ \E t \in task : t.triggered_load
    /\ last.generate_called
    /\ ~last.triggered_load
    /\ loads = 1

\* the state set_seed(s) is meant to leave all generators in
SeedState(s) == [torch |-> <<s, 0>>, numpy |-> <<s, 0>>]

\* C12: with requests run one after the other, a request that carries a
\* non-zero integer seed s enters model.generate with the generators in the
\* state s determines, and a request whose seed is absent, zero or no
\* integer enters it with the generators as it found them: all that
\* happens to them is the generate call.
C12_SeedDeterminesRng ==
    [][ (last' # last /\ last'.generate_called) =>
            IF last'.seed # None
            THEN last'.rng_in = Some(SeedState(last'.seed[1]))
            ELSE rng' = draw(rng) ]_vars

\* C13: every exception raised inside a TTS handler ends the request with
\* status 500 and the exception's message as the detail.
C13_FailureIs500 ==
    \A e \in last.raised : last.status = 500 /\ last.detail = str_exc(e)

\* C19 as claimed: while a request that was seeded is suspended between its
\* set_seed call and its generate call, the next step is its own.
C19_NothingBetweenSeedAndGenerate ==
    [][ \A t \in task : t.seed # None => t \notin task' ]_vars

\* C19: a request with a non-zero seed that the JSON handler, or the upload
\* handler without an attachment, serves enters model.generate with the
\* torch and random generators exactly as its own set_seed call left them,
\* whatever other requests are in flight.
C19_SeedReachesGenerate ==
    (last.generate_called /\ last.seed # None /\ ~last.attachment) =>
        last.rng_in[1].torch = <<last.seed[1], 0>>

\* a seeded JSON request served while a seeded upload is suspended at its
\* await
C19_Witness ==
    /\ last.kind = "json"
    /\ last.seed # None
    /\ last.generate_called
    /\ \E t \in task : t.seed # None

\* C16: the answer of GET /api/voices is a sorted list of names, each of
\* which the catalog lookup resolves, in which every file of the catalog
\* appears under exactly one name, so that the list is as long as count.
C16_OneNamePerFile ==
    phase = "serving" =>
        LET voices == get_voices.voices
        IN  /\ \A i, j \in DOMAIN voices : i < j => str_less(voices[i], voices[j])
            /\ \A i \in DOMAIN voices : lookup_voice(AVAILABLE_VOICES, voices[i]) # None
            /\ \A path \in dict_values(AVAILABLE_VOICES) :
                   Cardinality({ i \in DOMAIN voices :
                       lookup_voice(AVAILABLE_VOICES, voices[i]) = Some(path) }) = 1
            /\ Len(voices) = get_voices.count

\* a dict as the set of its items: Python compares dicts without regard to
\* insertion order
items(d) == { d[i] : i \in DOMAIN d }

CanonicalShape(in, out) ==
    /\ Len(out) \in {1, 2}
    /\ Len(out) = 2 => out[2] > 1
    /\ (Len(in) = 2 /\ (in[1] = 1 \/ in[2] = 1)) => out = <<in[1] * in[2]>>
    /\ (Len(in) = 2 /\ 1 < in[1] /\ in[1] < in[2]) => out = <<in[2], in[1]>>

C15_IdempotentOnOutputs ==
    passes >= 1 => process_audio(wav) = wav

\* C15: process_audio returns every buffer it has returned for a waveform
\* of at most two dimensions unchanged: same shape, dtype and samples.
C15_IdempotentUpTo2D ==
    (passes >= 1 /\ ndim(wav0) <= 2) => process_audio(wav) = wav

\* a 2-D float64 waveform that process_audio transposed, cast and clipped
C15_Witness ==
    /\ passes = 1
    /\ ndim(wav0) = 2
    /\ ndim(wav) = 2
    /\ wav0.dtype = "float64"
    /\ wav.shape # wav0.shape
    /\ \E idx \in DOMAIN wav.data : wav.data[idx] = 100
    /\ \E idx \in DOMAIN wav0.data : wav0.data[idx] = 0 - 151

\* for each index of the returned buffer, the index of the waveform its
\* sample comes from
origin(w) == ensure_shape(array(w.shape, w.dtype, [idx \in Indices(w.shape) |-> idx])).data

\* comparisons of a sample with the ends of the range; NaN compares false
in_range(x) == x # NaN /\ x >= 0 - 100 /\ x <= 100
above(x) == x # NaN /\ x > 100
below(x) == x # NaN /\ x < 0 - 100

\* C18 as claimed: every returned sample lies in [-1.0, 1.0]; a sample in
\* the range is returned unchanged, one above 1.0 as 1.0, one below -1.0 as
\* -1.0.
C18_ClippedUnchangedInRange ==
    passes = 1 =>
        \A idx \in DOMAIN wav.data :
            LET x == wav0.data[origin(wav0)[idx]]
                y == wav.data[idx]
            IN  /\ in_range(y)
                /\ in_range(x) => y = x
                /\ above(x) => y = 100
                /\ below(x) => y = 0 - 100

\* C18: every returned sample is the float32 nearest to the sample given,
\* clipped: a sample that is not NaN comes back in [-1.0, 1.0], as its
\* float32 value when it is in the range (unchanged for a float32
\* waveform), as 1.0 when above and as -1.0 when below; NaN comes back NaN.
C18_ClippedAfterCast ==
    passes = 1 =>
        \A idx \in DOMAIN wav.data :
            LET x == wav0.data[origin(wav0)[idx]]
                y == wav.data[idx]
            IN  /\ x # NaN => in_range(y)
                /\ in_range(x) => y = to_float32(x)
                /\ (in_range(x) /\ wav0.dtype = "float32") => y = x
                /\ above(x) => y = 100
                /\ below(x) => y = 0 - 100
                /\ x = NaN => y = NaN

\* a processed float64 waveform that held samples below, inside and above
\* the range, one of them no float32 value
C18_Witness ==
    /\ passes = 1
    /\ wav0.dtype = "float64"
    /\ \E idx \in DOMAIN wav0.data : below(wav0.data[idx])
    /\ \E idx \in DOMAIN wav0.data : above(wav0.data[idx])
    /\ \E idx \in DOMAIN wav0.data :
           in_range(wav0.data[idx]) /\ to_float32(wav0.data[idx]) # wav0.data[idx]

====
